---- MODULE Spec2Model ----
(***************************************************************************)
(* Terraform coverage auditor (tools/coverage_auditor.py): ResourceMatcher *)
(* and CoverageAuditor.audit_coverage.                                     *)
(*                                                                         *)
(* Strings are sequences of one-character strings, so that lower(),        *)
(* rstrip('/'), split('/'), re.sub and the substring test are computed and *)
(* not assumed.  A dict is the sequence of its items in insertion order.   *)
(***************************************************************************)
EXTENDS Integers, Sequences, FiniteSets, TLC

\* ------------------------------------------------------------------ strings
UpperCase == <<"A","B","C","D","E","F","G","H","I","J","K","L","M",
               "N","O","P","Q","R","S","T","U","V","W","X","Y","Z">>
LowerCase == <<"a","b","c","d","e","f","g","h","i","j","k","l","m",
               "n","o","p","q","r","s","t","u","v","w","x","y","z">>
Digits == <<"0","1","2","3","4","5","6","7","8","9">>

Range(s) == {s[i] : i \in 1..Len(s)}

\* str.lower() on the letters
LowerOf == [c \in Range(UpperCase) |-> LowerCase[CHOOSE i \in 1..26 : UpperCase[i] = c]]

\* str.lower() on one character
LowerChar(c) == IF c \in DOMAIN LowerOf THEN LowerOf[c] ELSE c

\* str.lower()
Lower(s) == [i \in 1..Len(s) |-> LowerChar(s[i])]

\* str.rstrip('/')
RECURSIVE RStripSlash(_)
RStripSlash(s) ==
    IF Len(s) > 0 /\ s[Len(s)] = "/"
    THEN RStripSlash(SubSeq(s, 1, Len(s) - 1))
    ELSE s

\* the id normalisation used on both sides of the identifier index:
\* azure_id.lower().rstrip('/')
NormalizeId(s) == RStripSlash(Lower(s))

\* sub in s
Contains(sub, s) ==
    \E i \in 0..(Len(s) - Len(sub)) : SubSeq(s, i + 1, i + Len(sub)) = sub

\* s.replace(pat, '') : leftmost non-overlapping occurrences are removed
RECURSIVE Remove(_, _)
Remove(s, pat) ==
    IF Len(s) < Len(pat) \/ Len(pat) = 0 THEN s
    ELSE IF SubSeq(s, 1, Len(pat)) = pat
         THEN Remove(SubSeq(s, Len(pat) + 1, Len(s)), pat)
         ELSE <<s[1]>> \o Remove(SubSeq(s, 2, Len(s)), pat)

\* position of the last / first occurrence of character c in s, 0 if none
LastIndexOf(s, c) ==
    IF \E i \in 1..Len(s) : s[i] = c
    THEN CHOOSE i \in 1..Len(s) : s[i] = c /\ \A j \in (i + 1)..Len(s) : s[j] # c
    ELSE 0

FirstIndexOf(s, c) ==
    IF \E i \in 1..Len(s) : s[i] = c
    THEN CHOOSE i \in 1..Len(s) : s[i] = c /\ \A j \in 1..(i - 1) : s[j] # c
    ELSE 0

\* ---------------------------------------------------------- ResourceMatcher
\* resource_id.split('/')[-1], "" for an empty id
extract_resource_name_from_id(resource_id) ==
    IF Len(resource_id) = 0 THEN <<>>
    ELSE SubSeq(resource_id, LastIndexOf(resource_id, "/") + 1, Len(resource_id))

AlnumLower == Range(LowerCase) \cup Range(Digits)

IsAlnumLower(c) == c \in AlnumLower

\* re.sub(r'[^a-z0-9]', '', name.lower())
normalize_resource_name(name) == SelectSeq(Lower(name), IsAlnumLower)

\* tf_address.split('.') : (parts[0], '.'.join(parts[1:])), ("", "") without a dot
parse_terraform_address(tf_address) ==
    LET d == FirstIndexOf(tf_address, ".") IN
    IF d = 0 THEN <<(<<>>), (<<>>)>>
    ELSE <<SubSeq(tf_address, 1, d - 1), SubSeq(tf_address, d + 1, Len(tf_address))>>

\* str(n) for a non-negative int
RECURSIVE IntToStr(_)
IntToStr(n) ==
    IF n < 10 THEN <<Digits[n + 1]>>
    ELSE IntToStr(n \div 10) \o <<Digits[(n % 10) + 1]>>

\* index_key of an instance: absent/None, an int (count) or a string (for_each)
NoKey == [kind |-> "none"]
IntKey(n) == [kind |-> "int", val |-> n]
StrKey(k) == [kind |-> "str", val |-> k]

\* InstanceAddress that writes a string key without its double quotes
InstanceAddressUnquoted(resource_type, resource_name, index_key) ==
    LET base == resource_type \o <<".">> \o resource_name IN
    IF index_key.kind = "none" THEN base
    ELSE IF index_key.kind = "int"
         THEN base \o <<"[">> \o IntToStr(index_key.val) \o <<"]">>
         ELSE base \o <<"[">> \o index_key.val \o <<"]">>

\* the address built for one instance of the state document
InstanceAddress(resource_type, resource_name, index_key) ==
    LET base == resource_type \o <<".">> \o resource_name IN
    IF index_key.kind = "none" THEN base
    ELSE IF index_key.kind = "int"
         THEN base \o <<"[">> \o IntToStr(index_key.val) \o <<"]">>
         ELSE base \o <<"[", "\"">> \o index_key.val \o <<"\"", "]">>

\* dict[key] = item on a dict kept as the sequence of its items: an existing
\* key keeps its position, a new key is appended
DictPut(d, item) ==
    IF \E i \in 1..Len(d) : d[i].address = item.address
    THEN [i \in 1..Len(d) |-> IF d[i].address = item.address THEN item ELSE d[i]]
    ELSE Append(d, item)

DictHas(d, address) == \E i \in 1..Len(d) : d[i].address = address

DictGet(d, address) == d[CHOOSE i \in 1..Len(d) : d[i].address = address]

\* CollectDetails without `if address not in resource_addresses: continue`
RECURSIVE CollectDetailsUnfiltered(_, _, _, _, _)
CollectDetailsUnfiltered(resources, r, k, resource_addresses, acc) ==
    IF r > Len(resources) THEN acc
    ELSE LET res == resources[r] IN
         IF res.mode # "managed" \/ k > Len(res.instances)
         THEN CollectDetailsUnfiltered(resources, r + 1, 1, resource_addresses, acc)
         ELSE LET inst == res.instances[k]
                  address == InstanceAddress(res.type, res.name, inst.index_key)
                  item == [address |-> address,
                           terraform_type |-> res.type,
                           terraform_name |-> res.name,
                           azure_resource_id |-> inst.id,
                           normalized_name |-> normalize_resource_name(res.name)]
              IN CollectDetailsUnfiltered(resources, r, k + 1, resource_addresses,
                     DictPut(acc, item))

\* the loop over state_data['resources'] and their instances: from resource
\* index r, instance index k on, with the details collected so far
RECURSIVE CollectDetails(_, _, _, _, _)
CollectDetails(resources, r, k, resource_addresses, acc) ==
    IF r > Len(resources) THEN acc
    ELSE LET res == resources[r] IN
         IF res.mode # "managed" \/ k > Len(res.instances)
         THEN CollectDetails(resources, r + 1, 1, resource_addresses, acc)
         ELSE LET inst == res.instances[k]
                  address == InstanceAddress(res.type, res.name, inst.index_key)
                  item == [address |-> address,
                           terraform_type |-> res.type,
                           terraform_name |-> res.name,
                           azure_resource_id |-> inst.id,
                           normalized_name |-> normalize_resource_name(res.name)]
              IN CollectDetails(resources, r, k + 1, resource_addresses,
                     IF address \in Range(resource_addresses)
                     THEN DictPut(acc, item) ELSE acc)

\* the index built from a state document that was found and parsed
DetailsOfDocument(resources, resource_addresses) ==
    CollectDetails(resources, 1, 1, resource_addresses, <<>>)

\* azure_id_to_tf[normalized_id]: the dict is filled in the order of the
\* details, so the last entry with that normalized id owns the key
IdIndexHas(details, nid) ==
    \E i \in 1..Len(details) :
        /\ Len(details[i].azure_resource_id) > 0
        /\ NormalizeId(details[i].azure_resource_id) = nid

IdIndexGet(details, nid) ==
    LET hits == {i \in 1..Len(details) :
                    /\ Len(details[i].azure_resource_id) > 0
                    /\ NormalizeId(details[i].azure_resource_id) = nid}
    IN details[CHOOSE i \in hits : \A j \in hits : j <= i].address

\* NameIndexGet with the candidates in the reverse order
RECURSIVE NameIndexGetReversed(_, _)
NameIndexGetReversed(details, name) ==
    IF Len(details) = 0 THEN <<>>
    ELSE NameIndexGetReversed(Tail(details), name)
         \o (IF Len(details[1].normalized_name) > 0 /\ details[1].normalized_name = name
             THEN <<details[1].address>> ELSE <<>>)

\* normalized_name_to_tf.get(name, []): addresses in the order of the details
RECURSIVE NameIndexGet(_, _)
NameIndexGet(details, name) ==
    IF Len(details) = 0 THEN <<>>
    ELSE (IF Len(details[1].normalized_name) > 0 /\ details[1].normalized_name = name
          THEN <<details[1].address>> ELSE <<>>)
         \o NameIndexGet(Tail(details), name)

\* resource_type.lower().replace('microsoft.', '').replace('/', '')
AzureTypeSimplified(resource_type) ==
    Remove(Remove(Lower(resource_type),
                  <<"m","i","c","r","o","s","o","f","t",".">>), <<"/">>)

\* TypeHinted with the substring test the wrong way round
TypeHintedSwapped(details, candidates, resource_type) ==
    SelectSeq(candidates,
              LAMBDA c : Contains(Lower(DictGet(details, c).terraform_type),
                                  AzureTypeSimplified(resource_type)))

\* the candidates whose terraform type contains the simplified azure type
TypeHinted(details, candidates, resource_type) ==
    SelectSeq(candidates,
              LAMBDA c : Contains(AzureTypeSimplified(resource_type),
                                  Lower(DictGet(details, c).terraform_type)))

\* MatchOne with the two strategies in the wrong order: the name index is
\* consulted before the identifier index
MatchOneNameFirst(azure_resource, details) ==
    LET resource_id == azure_resource.id
        normalized_azure_id == NormalizeId(resource_id)
        normalized_azure_name ==
            normalize_resource_name(extract_resource_name_from_id(resource_id))
        candidates == NameIndexGet(details, normalized_azure_name)
        hinted == TypeHinted(details, candidates, azure_resource.type)
    IN  IF Len(candidates) = 1
        THEN [address |-> candidates[1], method |-> "name"]
        ELSE IF Len(candidates) > 1
             THEN IF Len(hinted) > 0
                  THEN [address |-> hinted[1], method |-> "name_with_type_hint"]
                  ELSE [address |-> candidates[1], method |-> "name_ambiguous"]
        ELSE IF IdIndexHas(details, normalized_azure_id)
             THEN [address |-> IdIndexGet(details, normalized_azure_id),
                   method |-> "azure_id"]
        ELSE [address |-> <<>>, method |-> "none"]

\* strategies 1 and 2 for one azure resource: the address and the method,
\* or method "none" when nothing matches
MatchOne(azure_resource, details) ==
    LET resource_id == azure_resource.id
        resource_name == extract_resource_name_from_id(resource_id)
        normalized_azure_id == NormalizeId(resource_id)
        normalized_azure_name == normalize_resource_name(resource_name)
        candidates == NameIndexGet(details, normalized_azure_name)
        hinted == TypeHinted(details, candidates, azure_resource.type)
    IN  IF IdIndexHas(details, normalized_azure_id)
        THEN [address |-> IdIndexGet(details, normalized_azure_id),
              method |-> "azure_id"]
        ELSE IF Len(candidates) = 0 THEN [address |-> <<>>, method |-> "none"]
        ELSE IF Len(candidates) = 1
             THEN [address |-> candidates[1], method |-> "name"]
        ELSE IF Len(hinted) > 0
             THEN [address |-> hinted[1], method |-> "name_with_type_hint"]
        ELSE [address |-> candidates[1], method |-> "name_ambiguous"]

\* the loop body raises AttributeError for this resource: resource_id.lower()
\* on a null id, resource_type.lower() on a null type once several name
\* candidates are walked through
MatchRaises(azure_resource, details) ==
    \/ "id" \in azure_resource.nulls
    \/ /\ "type" \in azure_resource.nulls
       /\ ~IdIndexHas(details, NormalizeId(azure_resource.id))
       /\ Len(NameIndexGet(details,
               normalize_resource_name(
                   extract_resource_name_from_id(azure_resource.id)))) > 1

\* match_resources raises: the loop meets a resource its body raises for
MatchResourcesRaises(azure_resources, details) ==
    \E i \in 1..Len(azure_resources) : MatchRaises(azure_resources[i], details)

\* MatchedEntry whose confidence is high for every method
MatchedEntryAlwaysHigh(azure_resource, m, details) ==
    [azure_resource_id |-> azure_resource.id,
     azure_resource_type |-> azure_resource.type,
     azure_resource_name |-> extract_resource_name_from_id(azure_resource.id),
     terraform_address |-> m.address,
     terraform_type |-> DictGet(details, m.address).terraform_type,
     match_confidence |-> "high",
     match_method |-> m.method]

MatchedEntry(azure_resource, m, details) ==
    [azure_resource_id |-> azure_resource.id,
     azure_resource_type |-> azure_resource.type,
     azure_resource_name |-> extract_resource_name_from_id(azure_resource.id),
     terraform_address |-> m.address,
     terraform_type |-> DictGet(details, m.address).terraform_type,
     match_confidence |-> IF m.method = "azure_id" THEN "high" ELSE "medium",
     match_method |-> m.method]

MissingEntry(azure_resource) ==
    [resource_id |-> azure_resource.id,
     resource_type |-> azure_resource.type,
     resource_name |-> extract_resource_name_from_id(azure_resource.id),
     location |-> azure_resource.location]

\* MatchLoop without its else: a matched resource is reported missing too
RECURSIVE MatchLoopNoElse(_, _, _)
MatchLoopNoElse(azure_resources, details, acc) ==
    IF Len(azure_resources) = 0 THEN acc
    ELSE LET a == azure_resources[1]
             m == MatchOne(a, details)
         IN MatchLoopNoElse(Tail(azure_resources), details,
                IF m.method # "none"
                THEN [acc EXCEPT !.matched = Append(@, MatchedEntry(a, m, details)),
                                 !.matched_terraform = @ \cup {m.address},
                                 !.missing = Append(@, MissingEntry(a))]
                ELSE [acc EXCEPT !.missing = Append(@, MissingEntry(a))])

\* the loop over azure_resources
RECURSIVE MatchLoop(_, _, _)
MatchLoop(azure_resources, details, acc) ==
    IF Len(azure_resources) = 0 THEN acc
    ELSE LET a == azure_resources[1]
             m == MatchOne(a, details)
         IN MatchLoop(Tail(azure_resources), details,
                IF m.method # "none"
                THEN [acc EXCEPT !.matched = Append(@, MatchedEntry(a, m, details)),
                                 !.matched_terraform = @ \cup {m.address}]
                ELSE [acc EXCEPT !.missing = Append(@, MissingEntry(a))])

OrphanedEntry(tf_address) ==
    [terraform_address |-> tf_address,
     terraform_type |-> parse_terraform_address(tf_address)[1],
     terraform_name |-> parse_terraform_address(tf_address)[2]]

\* match_resources whose orphan loop does not look at matched_terraform
match_resources_all_orphaned(azure_resources, details, terraform_resource_addresses) ==
    LET acc == MatchLoop(azure_resources, details,
                         [matched |-> <<>>, missing |-> <<>>, matched_terraform |-> {}])
    IN [matched |-> acc.matched,
        missing |-> acc.missing,
        orphaned |-> [i \in 1..Len(terraform_resource_addresses) |->
                         OrphanedEntry(terraform_resource_addresses[i])]]

\* match_resources whose orphan loop starts at the second listed address
match_resources_skips_first_address(azure_resources, details, terraform_resource_addresses) ==
    LET acc == MatchLoop(azure_resources, details,
                         [matched |-> <<>>, missing |-> <<>>, matched_terraform |-> {}])
        unmatched == SelectSeq(SubSeq(terraform_resource_addresses, 2,
                                      Len(terraform_resource_addresses)),
                               LAMBDA a : a \notin acc.matched_terraform)
    IN [matched |-> acc.matched,
        missing |-> acc.missing,
        orphaned |-> [i \in 1..Len(unmatched) |-> OrphanedEntry(unmatched[i])]]

\* match_resources that looks for orphans among the indexed addresses only
match_resources_indexed_orphans(azure_resources, details, terraform_resource_addresses) ==
    LET acc == MatchLoop(azure_resources, details,
                         [matched |-> <<>>, missing |-> <<>>, matched_terraform |-> {}])
        unmatched == SelectSeq(terraform_resource_addresses,
                               LAMBDA a : /\ a \notin acc.matched_terraform
                                          /\ DictHas(details, a))
    IN [matched |-> acc.matched,
        missing |-> acc.missing,
        orphaned |-> [i \in 1..Len(unmatched) |-> OrphanedEntry(unmatched[i])]]

\* match_resources after the details were read: (matched, missing, orphaned)
match_resources(azure_resources, details, terraform_resource_addresses) ==
    LET acc == MatchLoop(azure_resources, details,
                         [matched |-> <<>>, missing |-> <<>>, matched_terraform |-> {}])
        unmatched == SelectSeq(terraform_resource_addresses,
                               LAMBDA a : a \notin acc.matched_terraform)
    IN [matched |-> acc.matched,
        missing |-> acc.missing,
        orphaned |-> [i \in 1..Len(unmatched) |-> OrphanedEntry(unmatched[i])]]

\* --------------------------------------------------------- CoverageAuditor
\* CoverageHundredths with an empty inventory counted as fully covered
CoverageHundredthsEmptyIsFull(n_matched, total_azure) ==
    IF total_azure > 0
    THEN (2 * n_matched * 10000 + total_azure) \div (2 * total_azure)
    ELSE 10000

\* round(len(matched) / total_azure * 100, 2) in hundredths of a percent,
\* 0 when total_azure is 0; a tie goes to the even neighbour
CoverageHundredths(n_matched, total_azure) ==
    IF total_azure > 0
    THEN LET num == n_matched * 10000
             q == num \div total_azure
             rem2 == 2 * (num % total_azure)
         IN IF rem2 > total_azure \/ (rem2 = total_azure /\ q % 2 = 1)
            THEN q + 1 ELSE q
    ELSE 0

\* coverage_percentage < 100 and coverage_percentage == 100 on the unrounded value
CoverageBelow100(n_matched, total_azure) ==
    IF total_azure > 0 THEN n_matched < total_azure ELSE TRUE

CoverageIs100(n_matched, total_azure) ==
    total_azure > 0 /\ n_matched = total_azure

Recommendations(matched, missing, orphaned, total_azure) ==
    (IF Len(missing) > 0 THEN <<[kind |-> "export", n |-> Len(missing)]>> ELSE <<>>)
    \o (IF Len(orphaned) > 0 THEN <<[kind |-> "review_orphaned", n |-> Len(orphaned)]>>
        ELSE <<>>)
    \o (IF CoverageBelow100(Len(matched), total_azure) /\ Len(missing) = 0
        THEN <<[kind |-> "review_manually", n |-> 0]>> ELSE <<>>)
    \o (IF CoverageIs100(Len(matched), total_azure)
        THEN <<[kind |-> "all_managed", n |-> 0]>> ELSE <<>>)

\* f"Use export_azure_resource with resource_id='{resource_id}'": the fixed
\* text is one token, the id follows character by character, then the quote
ExportText == "Use export_azure_resource with resource_id='"

ExportCommand(resource_id) == <<ExportText>> \o resource_id \o <<"'">>

\* the export command built from the entry's name instead of its id
WithExportCommandOfName(resource) ==
    [resource_id |-> resource.resource_id,
     resource_type |-> resource.resource_type,
     resource_name |-> resource.resource_name,
     location |-> resource.location,
     export_command |-> ExportCommand(resource.resource_name)]

\* for resource in missing: resource['export_command'] = ...
WithExportCommand(resource) ==
    [resource_id |-> resource.resource_id,
     resource_type |-> resource.resource_type,
     resource_name |-> resource.resource_name,
     location |-> resource.location,
     export_command |-> ExportCommand(resource.resource_id)]

_generate_report(matched, missing, orphaned, total_azure, total_terraform) ==
    [success |-> TRUE,
     error |-> "",
     summary |-> [total_azure_resources |-> total_azure,
                  total_terraform_resources |-> total_terraform,
                  terraform_managed |-> Len(matched),
                  coverage_percentage |-> CoverageHundredths(Len(matched), total_azure),
                  missing_from_terraform |-> Len(missing),
                  orphaned_in_terraform |-> Len(orphaned)],
     managed_resources |-> matched,
     missing_resources |-> [i \in 1..Len(missing) |-> WithExportCommand(missing[i])],
     orphaned_resources |-> orphaned,
     recommendations |-> Recommendations(matched, missing, orphaned, total_azure)]

\* {'success': False, 'error': ...}: no summary and no resource lists
ErrorResult(msg) ==
    [success |-> FALSE, error |-> msg]

\* ------------------------------------------------------------------ bounds
MaxLive == 2
MaxDoc == 2
MaxList == 2

\* the calls of audit_coverage made on the one auditor of the server
Runs == {"first", "second"}

\* ------------------------------------------------------- the inputs drawn
tXY == <<"r","_","x","y">>
tW == <<"r","_","w">>
idAB == <<"/","s","/","a","b">>
idABvariant == <<"/","S","/","A","B","/">>
idDashed == <<"/","t","/","a","-","b">>
typeXY == <<"M","i","c","r","o","s","o","f","t",".","X","/","y">>
typeQZ == <<"Q","/","z">>

\* resource blocks of a terraform.tfstate document
blockAB ==
    [type |-> tXY, name |-> <<"a","b">>, mode |-> "managed",
     instances |-> <<[index_key |-> NoKey, id |-> idAB]>>]
blockKeyed ==
    [type |-> tW, name |-> <<"a","_","b">>, mode |-> "managed",
     instances |-> <<[index_key |-> IntKey(0), id |-> <<>>],
                     [index_key |-> StrKey(<<"k">>), id |-> idABvariant]>>]
blockData ==
    [type |-> tXY, name |-> <<"a","b">>, mode |-> "data",
     instances |-> <<[index_key |-> NoKey, id |-> idDashed]>>]

DocPool == {blockAB, blockKeyed, blockData}

\* addresses `terraform state list` can print
addrAB == tXY \o <<".","a","b">>
addrKey0 == tW \o <<".","a","_","b","[","0","]">>
addrKeyK == tW \o <<".","a","_","b","[","\"","k","\"","]">>

AddrPool == {addrAB, addrKey0, addrKeyK}

\* resource descriptors the inventory query can return
\* nulls names the fields whose JSON value is null (None once parsed)
liveVariant == [id |-> idABvariant, type |-> typeQZ, location |-> "eastus", nulls |-> {}]
liveAB == [id |-> idAB, type |-> typeQZ, location |-> "eastus", nulls |-> {}]
liveDashed == [id |-> idDashed, type |-> typeXY, location |-> "westus", nulls |-> {}]

LivePool == {liveVariant, liveAB, liveDashed}

\* more descriptors for match_resources: an id that is declared together with
\* a type that hints, null fields, and no fields at all (the defaults of .get)
liveTwin == [id |-> idAB, type |-> typeXY, location |-> "eastus", nulls |-> {}]
liveNullId == [id |-> <<>>, type |-> typeXY, location |-> "eastus", nulls |-> {"id"}]
liveNullType == [id |-> idDashed, type |-> <<>>, location |-> "eastus", nulls |-> {"type"}]
liveNullLocation ==
    [id |-> idDashed, type |-> typeQZ, location |-> "null", nulls |-> {"location"}]
liveNoFields == [id |-> <<>>, type |-> <<>>, location |-> "unknown", nulls |-> {}]

MatcherPool == {liveDashed, liveTwin, liveNullId, liveNullType, liveNullLocation,
                liveNoFields}

\* the output of `az group show` and the type given to the group's descriptor
idGroup == <<"/","s","/","g">>
typeGroup == <<"m","i","c","r","o","s","o","f","t",".","r","e","s","o","u","r","c","e","s",
               "/","r","e","s","o","u","r","c","e","g","r","o","u","p","s">>
GroupPool == {[id |-> idGroup, location |-> "eastus"]}

\* the scopes _query_azure_resources builds a query for
ValidScopes == {"resource-group", "subscription", "query"}

\* all sequences over S of length at most n
SeqsUpTo(S, n) == UNION {[1..k -> S] : k \in 0..n}

NoDuplicates(s) == \A i, j \in 1..Len(s) : s[i] = s[j] => i = j

Documents == SeqsUpTo(DocPool, MaxDoc)
Listings == {l \in SeqsUpTo(AddrPool, MaxList) : NoDuplicates(l)}
Inventories == SeqsUpTo(LivePool, MaxLive)

\* an answer of the environment that no run has asked for yet, a failure
\* (non-zero exit code, unparsable file; for the inventory and the state
\* listing also an exception), an exception where it is told apart from a
\* non-zero exit code, a subprocess that never completes, and a value
Unasked == [known |-> FALSE, ok |-> FALSE, how |-> "unasked", value |-> <<>>]
Failed == [known |-> TRUE, ok |-> FALSE, how |-> "failed", value |-> <<>>]
Raised == [known |-> TRUE, ok |-> FALSE, how |-> "raised", value |-> <<>>]
Hung == [known |-> TRUE, ok |-> FALSE, how |-> "hung", value |-> <<>>]
Answer(v) == [known |-> TRUE, ok |-> TRUE, how |-> "value", value |-> v]

\* ------------------------------------------------------------------- state
VARIABLES
    auth_attempted,     \* CoverageAuditor.auth_attempted
    auth_successful,    \* CoverageAuditor.auth_successful
    armEnv,             \* "sp" when the ARM_* variables are set, else "none"
    cliSession,         \* the az CLI login: "none", "user" or "sp"
    cliSubscription,    \* the az CLI default subscription: "default" or "arm"
    terraformDir,       \* workspace/.terraform exists
    tfstateExists,      \* workspace/terraform.tfstate exists
    stateListAnswer,    \* what `terraform state list` answers
    inventoryAnswer,    \* what the resource graph query answers
    groupAnswer,        \* what `az group show` answers
    stateDocument,      \* what terraform.tfstate holds when it is loaded
    initAnswer,         \* what `terraform init` answers
    run,                \* per audit_coverage call: its position and locals
    call                \* a direct call of ResourceMatcher.normalize_resource_name

vars == <<auth_attempted, auth_successful, armEnv, cliSession, cliSubscription,
          terraformDir, tfstateExists, stateListAnswer, inventoryAnswer,
          groupAnswer, stateDocument, initAnswer, run, call>>

auditor == <<auth_attempted, auth_successful>>
cli == <<cliSession, cliSubscription>>
workspace == <<terraformDir, tfstateExists>>
answers == <<stateListAnswer, inventoryAnswer, groupAnswer, stateDocument, initAnswer>>

\* no direct call of the matcher's helpers is in progress
NoCall == [pc |-> "none", name |-> <<>>, result |-> <<>>]

IdleRun ==
    [pc |-> "idle",
     workspace_folder |-> "",
     scope |-> "resource-group",
     scope_value |-> "",
     include_non_terraform_resources |-> TRUE,
     include_orphaned_terraform_resources |-> TRUE,
     terraform_resources |-> <<>>,
     azure_resources |-> <<>>,
     tf_resource_details |-> <<>>,
     matched |-> <<>>,
     missing |-> <<>>,
     orphaned |-> <<>>,
     result |-> ErrorResult("")]

\* a fresh auditor; nothing was asked of the environment yet
InitAuditor ==
    /\ auth_attempted = FALSE
    /\ auth_successful = FALSE
    /\ cliSubscription = "default"
    /\ initAnswer = Unasked
    /\ groupAnswer = Unasked
    /\ run = [r \in Runs |-> IdleRun]
    /\ call = NoCall

\* an initialised workspace with a local state file, az logged in by the user
Init ==
    /\ InitAuditor
    /\ armEnv = "none"
    /\ cliSession = "user"
    /\ terraformDir = TRUE
    /\ tfstateExists = TRUE
    /\ stateListAnswer = Unasked
    /\ inventoryAnswer = Unasked
    /\ stateDocument = Unasked

\* resolve_workspace_path(workspace_folder) raises ValueError
WorkspaceRejected(workspace_folder) == workspace_folder = "outside"

Return(r, res) == run' = [run EXCEPT ![r].pc = "done", ![r].result = res]

\* a call of audit_coverage with its arguments, scope and scope_value left
\* at their defaults
Start(r) ==
    /\ r = "first"
    /\ run[r].pc = "idle"
    /\ \E folder \in {"workspace", "outside"}, inc_missing, inc_orphaned \in BOOLEAN :
         run' = [run EXCEPT ![r].pc = "auth",
                            ![r].workspace_folder = folder,
                            ![r].include_non_terraform_resources = inc_missing,
                            ![r].include_orphaned_terraform_resources = inc_orphaned]
    /\ UNCHANGED <<auditor, armEnv, call, cli, workspace, answers>>

\* a call of audit_coverage with any scope and scope_value, the include flags
\* left at their defaults
StartScoped(r) ==
    /\ r = "first"
    /\ run[r].pc = "idle"
    /\ \E scope \in ValidScopes \cup {"other"}, scope_value \in {"", "g"} :
         run' = [run EXCEPT ![r].pc = "auth",
                            ![r].workspace_folder = "workspace",
                            ![r].scope = scope,
                            ![r].scope_value = scope_value]
    /\ UNCHANGED <<auditor, armEnv, call, cli, workspace, answers>>

\* the same call again, once the call before it has returned
Repeat(r) ==
    /\ r = "second"
    /\ run[r].pc = "idle"
    /\ run["first"].pc = "done"
    /\ run' = [run EXCEPT
           ![r].pc = "auth",
           ![r].workspace_folder = run["first"].workspace_folder,
           ![r].scope = run["first"].scope,
           ![r].scope_value = run["first"].scope_value,
           ![r].include_non_terraform_resources =
               run["first"].include_non_terraform_resources,
           ![r].include_orphaned_terraform_resources =
               run["first"].include_orphaned_terraform_resources]
    /\ UNCHANGED <<auditor, armEnv, call, cli, workspace, answers>>

\* AuthBegin that clears auth_successful when the attempt is skipped
AuthBeginForgets(r) ==
    /\ run[r].pc = "auth"
    /\ IF auth_attempted
       THEN /\ run' = [run EXCEPT ![r].pc = "validate"]
            /\ auth_successful' = FALSE
            /\ UNCHANGED auth_attempted
       ELSE /\ auth_attempted' = TRUE
            /\ run' = [run EXCEPT ![r].pc = "auth_wait"]
            /\ UNCHANGED auth_successful
    /\ UNCHANGED <<armEnv, call, cli, workspace, answers>>

\* `if not self.auth_attempted` and the synchronous head of
\* _authenticate_azure_cli, up to its first await
AuthBegin(r) ==
    /\ run[r].pc = "auth"
    /\ IF auth_attempted
       THEN /\ run' = [run EXCEPT ![r].pc = "validate"]
            /\ UNCHANGED auth_attempted
       ELSE /\ auth_attempted' = TRUE
            /\ run' = [run EXCEPT ![r].pc = "auth_wait"]
    /\ UNCHANGED <<auth_successful, armEnv, call, cli, workspace, answers>>

\* the az subprocesses of _authenticate_azure_cli return
AuthEnd(r) ==
    /\ run[r].pc = "auth_wait"
    /\ run' = [run EXCEPT ![r].pc = "validate"]
    /\ IF armEnv = "none"
       THEN \* az account show
            /\ auth_successful' = (auth_successful \/ cliSession # "none")
            /\ UNCHANGED cli
       ELSE \* az login --service-principal, then az account set
            \E login_ok, set_ok \in BOOLEAN :
                /\ auth_successful' = (auth_successful \/ login_ok)
                /\ cliSession' = IF login_ok THEN "sp" ELSE cliSession
                /\ cliSubscription' = IF login_ok /\ set_ok THEN "arm"
                                      ELSE cliSubscription
    /\ UNCHANGED <<auth_attempted, armEnv, call, workspace, answers>>

\* Validate that goes on to the state listing whatever the workspace is
ValidateGoesOn(r) ==
    /\ run[r].pc = "validate"
    /\ run' = [run EXCEPT ![r].pc = "state_list"]
    /\ UNCHANGED <<auditor, armEnv, call, cli, workspace, answers>>

\* resolve_workspace_path: an error result on ValueError
Validate(r) ==
    /\ run[r].pc = "validate"
    /\ IF WorkspaceRejected(run[r].workspace_folder)
       THEN Return(r, ErrorResult("workspace"))
       ELSE run' = [run EXCEPT ![r].pc = "state_list"]
    /\ UNCHANGED <<auditor, armEnv, call, cli, workspace, answers>>

\* StateList that takes a failed listing for an empty state
StateListEmptyOnFailure(r) ==
    /\ run[r].pc = "state_list"
    /\ \E a \in {Failed} \cup {Answer(l) : l \in Listings} :
         /\ stateListAnswer.known => a = stateListAnswer
         /\ stateListAnswer' = a
         /\ run' = [run EXCEPT ![r].pc = "query",
                               ![r].terraform_resources = a.value]
    /\ UNCHANGED <<auditor, armEnv, call, cli, workspace, inventoryAnswer, groupAnswer,
                   stateDocument, initAnswer>>

\* _get_terraform_state_resources: None on a non-zero exit code or an exception
StateList(r) ==
    /\ run[r].pc = "state_list"
    /\ \E a \in {Failed} \cup {Answer(l) : l \in Listings} :
         /\ stateListAnswer.known => a = stateListAnswer
         /\ stateListAnswer' = a
         /\ IF a.ok
            THEN run' = [run EXCEPT ![r].pc = "query",
                                    ![r].terraform_resources = a.value]
            ELSE Return(r, ErrorResult("state"))
    /\ UNCHANGED <<auditor, armEnv, call, cli, workspace, inventoryAnswer, groupAnswer,
                   stateDocument, initAnswer>>

\* the error message of a failed inventory query
QueryError(successful) ==
    IF successful THEN "azure" ELSE "azure_auth_not_configured"

\* rg_resource: the descriptor built from the output of `az group show`
GroupResource(rg_data) ==
    [id |-> rg_data.id, type |-> typeGroup, location |-> rg_data.location,
     nulls |-> {}]

\* WithGroup that puts the group after the resources
WithGroupLast(rg_resource, resources) == resources \o <<rg_resource>>

\* [rg_resource] + resources
WithGroup(rg_resource, resources) == <<rg_resource>> \o resources

\* QueryAzure that takes a failed query for an empty inventory
QueryAzureEmptyOnFailure(r) ==
    /\ run[r].pc = "query"
    /\ \E a \in {Failed} \cup {Answer(l) : l \in Inventories} :
         /\ inventoryAnswer.known => a = inventoryAnswer
         /\ inventoryAnswer' = a
         /\ run' = [run EXCEPT ![r].pc = "match", ![r].azure_resources = a.value]
    /\ UNCHANGED <<auditor, armEnv, call, cli, workspace, stateListAnswer, groupAnswer,
                   stateDocument, initAnswer>>

\* _query_azure_resources: None for an invalid scope, on a non-zero exit code
\* of the graph query and on any exception, that of the group lookup included;
\* for resource-group scope with a scope_value the group is looked up and put
\* first.  Neither subprocess is awaited with a timeout: a query that never
\* completes leaves the call where it is.
QueryAzure(r) ==
    /\ run[r].pc = "query"
    /\ IF run[r].scope \notin ValidScopes
       THEN /\ Return(r, ErrorResult(QueryError(auth_successful)))
            /\ UNCHANGED <<inventoryAnswer, groupAnswer>>
       ELSE \E a \in {Failed, Hung} \cup {Answer(l) : l \in Inventories} :
         /\ inventoryAnswer.known => a = inventoryAnswer
         /\ inventoryAnswer' = a
         /\ IF a.how = "hung"
            THEN UNCHANGED <<run, groupAnswer>>
            ELSE IF ~a.ok
            THEN /\ Return(r, ErrorResult(QueryError(auth_successful)))
                 /\ UNCHANGED groupAnswer
            ELSE IF run[r].scope = "resource-group" /\ run[r].scope_value # ""
            THEN \E g \in {Failed, Raised} \cup {Answer(d) : d \in GroupPool} :
                   /\ groupAnswer.known => g = groupAnswer
                   /\ groupAnswer' = g
                   /\ IF g.how = "raised"
                      THEN Return(r, ErrorResult(QueryError(auth_successful)))
                      ELSE run' = [run EXCEPT
                               ![r].pc = "match",
                               ![r].azure_resources =
                                   IF g.ok
                                   THEN WithGroup(GroupResource(g.value), a.value)
                                   ELSE a.value]
            ELSE /\ run' = [run EXCEPT ![r].pc = "match",
                                       ![r].azure_resources = a.value]
                 /\ UNCHANGED groupAnswer
    /\ UNCHANGED <<auditor, armEnv, call, cli, workspace, stateListAnswer, stateDocument,
                   initAnswer>>

\* what get_state_resource_details returns for a document answer d: the index
\* of a parsed document, the empty index for one that cannot be parsed
DetailsOf(d, resource_addresses) ==
    IF d.ok THEN DetailsOfDocument(d.value, resource_addresses) ELSE <<>>

\* audit_report with the two totals passed in the wrong order
audit_report_totals_swapped(m, azure_resources, terraform_resources, inc_missing, inc_orphaned) ==
    _generate_report(
        m.matched,
        IF inc_missing THEN m.missing ELSE <<>>,
        IF inc_orphaned THEN m.orphaned ELSE <<>>,
        Len(terraform_resources),
        Len(azure_resources))

\* audit_report with the total taken from the lists that are shown
audit_report_total_of_shown(m, azure_resources, terraform_resources, inc_missing, inc_orphaned) ==
    _generate_report(
        m.matched,
        IF inc_missing THEN m.missing ELSE <<>>,
        IF inc_orphaned THEN m.orphaned ELSE <<>>,
        Len(m.matched) + (IF inc_missing THEN Len(m.missing) ELSE 0),
        Len(terraform_resources))

\* step 4 of audit_coverage: the report of the matcher's three lists m
audit_report(m, azure_resources, terraform_resources, inc_missing, inc_orphaned) ==
    _generate_report(
        m.matched,
        IF inc_missing THEN m.missing ELSE <<>>,
        IF inc_orphaned THEN m.orphaned ELSE <<>>,
        Len(azure_resources),
        Len(terraform_resources))

\* the return of audit_coverage after a successful inventory query: the
\* report, or the error result of `except Exception` when match_resources raises
Finish(r, details) ==
    LET m == match_resources(run[r].azure_resources, details,
                             run[r].terraform_resources)
    IN IF MatchResourcesRaises(run[r].azure_resources, details)
       THEN run' = [run EXCEPT ![r].pc = "done",
                               ![r].tf_resource_details = details,
                               ![r].result = ErrorResult("exception")]
       ELSE
       run' = [run EXCEPT
           ![r].pc = "done",
           ![r].tf_resource_details = details,
           ![r].matched = m.matched,
           ![r].missing = m.missing,
           ![r].orphaned = m.orphaned,
           ![r].result = audit_report(m, run[r].azure_resources,
                                      run[r].terraform_resources,
                                      run[r].include_non_terraform_resources,
                                      run[r].include_orphaned_terraform_resources)]

\* json.load of terraform.tfstate, then the matching and the report
LoadAndFinish(r) ==
    \E d \in IF stateDocument.known THEN {stateDocument}
             ELSE {Failed} \cup {Answer(doc) : doc \in Documents} :
        /\ stateDocument' = d
        /\ Finish(r, DetailsOf(d, run[r].terraform_resources))

\* match_resources (get_state_resource_details with its terraform init, the
\* matching loop, the orphans), then _generate_report and the return
MatchAndReport(r) ==
    /\ run[r].pc = "match"
    /\ IF tfstateExists
       THEN LoadAndFinish(r) /\ UNCHANGED <<workspace, initAnswer>>
       ELSE IF terraformDir
            THEN Finish(r, <<>>) /\ UNCHANGED <<workspace, initAnswer, stateDocument>>
            ELSE \* terraform init: it fails, or it creates .terraform and
                 \* the state file is there afterwards or still is not
                 \E a \in {Failed, Answer(TRUE), Answer(FALSE)} :
                    /\ initAnswer.known => a = initAnswer
                    /\ initAnswer' = a
                    /\ IF ~a.ok
                       THEN Finish(r, <<>>) /\ UNCHANGED <<workspace, stateDocument>>
                       ELSE /\ terraformDir' = TRUE
                            /\ tfstateExists' = a.value
                            /\ IF a.value THEN LoadAndFinish(r)
                               ELSE Finish(r, <<>>) /\ UNCHANGED stateDocument
    /\ UNCHANGED <<auditor, armEnv, call, cli, stateListAnswer, inventoryAnswer, groupAnswer>>

\* the steps of call r after its start
Steps(r) ==
    \/ AuthBegin(r)
    \/ AuthEnd(r)
    \/ Validate(r)
    \/ StateList(r)
    \/ QueryAzure(r)
    \/ MatchAndReport(r)

\* one call
Next == Start("first") \/ Steps("first")

Spec == Init /\ [][Next]_vars

\* the environment of the call varies: the ARM_* variables, the az login and
\* what the workspace holds; the reads answer with one fixed listing and
\* inventory and one of two state documents, or fail
InitEnvironment ==
    /\ InitAuditor
    /\ \E e \in {<<"none", "none">>, <<"none", "user">>, <<"sp", "none">>} :
         armEnv = e[1] /\ cliSession = e[2]
    /\ terraformDir \in BOOLEAN
    /\ tfstateExists \in BOOLEAN
    /\ tfstateExists => terraformDir
    /\ stateListAnswer \in {Failed, Answer(<<addrAB, addrKey0>>)}
    /\ inventoryAnswer \in {Failed, Answer(<<liveVariant, liveDashed>>)}
    /\ stateDocument \in {Failed, Answer(<<blockAB, blockKeyed>>), Answer(<<blockKeyed>>)}

SpecEnvironment == InitEnvironment /\ [][Next]_vars

\* the same call made again on the same auditor against the same environment:
\* the state file, when there is one, holds one fixed document
InitRepeat ==
    /\ InitAuditor
    /\ armEnv = "none"
    /\ cliSession \in {"none", "user"}
    /\ terraformDir \in BOOLEAN
    /\ tfstateExists = terraformDir
    /\ stateListAnswer = Unasked
    /\ inventoryAnswer = Unasked
    /\ stateDocument \in {Failed, Answer(<<blockKeyed, blockAB>>)}

NextRepeat == Start("first") \/ Repeat("second") \/ \E r \in Runs : Steps(r)

SpecRepeat == InitRepeat /\ [][NextRepeat]_vars

\* the same call made a second time while the first one may still be running:
\* the server awaits each tool call on one event loop, so a second call can
\* start at any await of the first, the earliest being the one inside
\* _authenticate_azure_cli.  The reads answer both calls alike.
Overlap(r) ==
    /\ r = "second"
    /\ run[r].pc = "idle"
    /\ run["first"].pc \notin {"idle", "auth"}
    /\ run' = [run EXCEPT
           ![r].pc = "auth",
           ![r].workspace_folder = run["first"].workspace_folder,
           ![r].scope = run["first"].scope,
           ![r].scope_value = run["first"].scope_value,
           ![r].include_non_terraform_resources =
               run["first"].include_non_terraform_resources,
           ![r].include_orphaned_terraform_resources =
               run["first"].include_orphaned_terraform_resources]
    /\ UNCHANGED <<auditor, armEnv, call, cli, workspace, answers>>

InitConcurrent ==
    /\ InitAuditor
    /\ armEnv = "none"
    /\ cliSession \in {"none", "user"}
    /\ terraformDir = TRUE
    /\ tfstateExists = TRUE
    /\ stateListAnswer \in {Failed, Answer(<<addrAB, addrKey0>>)}
    /\ inventoryAnswer \in {Failed, Answer(<<liveVariant, liveDashed>>)}
    /\ stateDocument \in {Failed, Answer(<<blockAB, blockKeyed>>)}

NextConcurrent == Start("first") \/ Overlap("second") \/ \E r \in Runs : Steps(r)

SpecConcurrent == InitConcurrent /\ [][NextConcurrent]_vars

\* one call whose reads fail, answer, or (the graph query) never complete;
\* the event loop runs every step that can be taken
InitLive ==
    /\ InitAuditor
    /\ armEnv = "none"
    /\ cliSession = "user"
    /\ terraformDir = TRUE
    /\ tfstateExists = TRUE
    /\ stateListAnswer \in {Failed, Answer(<<addrAB, addrKey0>>)}
    /\ inventoryAnswer \in {Failed, Hung, Answer(<<liveVariant, liveDashed>>)}
    /\ stateDocument \in {Failed, Answer(<<blockAB, blockKeyed>>)}

SpecLive == InitLive /\ [][Next]_vars /\ WF_vars(Next)

\* one call with any scope against one declared state: the inventory and the
\* group lookup answer anything
InitScope ==
    /\ InitAuditor
    /\ armEnv = "none"
    /\ cliSession = "user"
    /\ terraformDir = TRUE
    /\ tfstateExists = TRUE
    /\ stateListAnswer = Answer(<<addrAB, addrKey0>>)
    /\ inventoryAnswer = Unasked
    /\ stateDocument = Answer(<<blockAB, blockKeyed>>)

NextScope == StartScoped("first") \/ Steps("first")

SpecScope == InitScope /\ [][NextScope]_vars

\* match_resources on its own: a call that has listed the state and queried
\* the inventory, for any inventory over MatcherPool and any full listing
InitMatcher ==
    /\ auth_attempted = TRUE
    /\ auth_successful = TRUE
    /\ armEnv = "none"
    /\ cliSession = "user"
    /\ cliSubscription = "default"
    /\ terraformDir = TRUE
    /\ tfstateExists = TRUE
    /\ initAnswer = Unasked
    /\ groupAnswer = Unasked
    /\ stateDocument = Unasked
    /\ call = NoCall
    /\ \E l \in {x \in Listings : Len(x) = MaxList}, live \in SeqsUpTo(MatcherPool, MaxLive) :
         /\ stateListAnswer = Answer(l)
         /\ inventoryAnswer = Answer(live)
         /\ run = [r \in Runs |->
                     IF r = "first"
                     THEN [IdleRun EXCEPT !.pc = "match",
                                          !.workspace_folder = "workspace",
                                          !.terraform_resources = l,
                                          !.azure_resources = live]
                     ELSE IdleRun]

NextMatcher == MatchAndReport("first")

SpecMatcher == InitMatcher /\ [][NextMatcher]_vars

\* match_resources over declared names that normalize to the empty string
\* (only separators) beside names that do not, and live ids whose last path
\* segment is empty (a trailing slash) beside ids that end in a name
blockBlank ==
    [type |-> tW, name |-> <<"_">>, mode |-> "managed",
     instances |-> <<[index_key |-> NoKey, id |-> <<>>]>>]
blockBlankTwin ==
    [type |-> tXY, name |-> <<"_","_">>, mode |-> "managed",
     instances |-> <<[index_key |-> NoKey, id |-> <<>>]>>]

addrBlank == tW \o <<".","_">>
addrBlankTwin == tXY \o <<".","_","_">>

NamesDocPool == {blockAB, blockKeyed, blockBlank, blockBlankTwin}
NamesAddrPool == {addrAB, addrKey0, addrKeyK, addrBlank, addrBlankTwin}
NamesLivePool == {liveVariant, liveDashed, liveTwin}

InitNames ==
    /\ auth_attempted = TRUE
    /\ auth_successful = TRUE
    /\ armEnv = "none"
    /\ cliSession = "user"
    /\ cliSubscription = "default"
    /\ terraformDir = TRUE
    /\ tfstateExists = TRUE
    /\ initAnswer = Unasked
    /\ groupAnswer = Unasked
    /\ call = NoCall
    /\ \E doc \in SeqsUpTo(NamesDocPool, MaxDoc),
          l \in {x \in SeqsUpTo(NamesAddrPool, MaxList) : Len(x) = MaxList /\ NoDuplicates(x)},
          live \in SeqsUpTo(NamesLivePool, MaxLive) :
         /\ stateDocument = Answer(doc)
         /\ stateListAnswer = Answer(l)
         /\ inventoryAnswer = Answer(live)
         /\ run = [r \in Runs |->
                     IF r = "first"
                     THEN [IdleRun EXCEPT !.pc = "match",
                                          !.workspace_folder = "workspace",
                                          !.terraform_resources = l,
                                          !.azure_resources = live]
                     ELSE IdleRun]

NextNames == MatchAndReport("first")

SpecNames == InitNames /\ [][NextNames]_vars

\* normalize_resource_name on its own: it is called with a name of up to
\* MaxName characters.  Beside letters of both cases, a digit and a hyphen the
\* names hold two letters outside ASCII, written by their code points:
\* U+00DF (sharp s) and U+0131 (dotless i).  str.lower() leaves both as they are.
MaxName == 3

sharpS == "U+00DF"
dotlessI == "U+0131"

NameChars == {"a", "S", "7", "-", sharpS, dotlessI}

Names == SeqsUpTo(NameChars, MaxName)

InitNormalize ==
    /\ auth_attempted = FALSE
    /\ auth_successful = FALSE
    /\ armEnv = "none"
    /\ cliSession = "user"
    /\ cliSubscription = "default"
    /\ terraformDir = TRUE
    /\ tfstateExists = TRUE
    /\ stateListAnswer = Unasked
    /\ inventoryAnswer = Unasked
    /\ groupAnswer = Unasked
    /\ stateDocument = Unasked
    /\ initAnswer = Unasked
    /\ run = [r \in Runs |-> IdleRun]
    /\ call \in {[pc |-> "called", name |-> s, result |-> <<>>] : s \in Names}

\* return re.sub(r'[^a-z0-9]', '', name.lower())
NormalizeName ==
    /\ call.pc = "called"
    /\ call' = [call EXCEPT !.pc = "returned",
                            !.result = normalize_resource_name(call.name)]
    /\ UNCHANGED <<auditor, armEnv, cli, workspace, answers, run>>

NextNormalize == NormalizeName

SpecNormalize == InitNormalize /\ [][NextNormalize]_vars

\* ------------------------------------------------------------------ claims
\* call r has returned / has returned a report
Returned(r) == run[r].pc = "done"
Reported(r) == Returned(r) /\ run[r].result.success

\* C1: no two entries of the matched list returned by match_resources (and so
\* of the report's managed_resources) carry the same terraform_address.
C1_NoAddressMatchedTwice ==
    \A r \in Runs :
        Reported(r) =>
            /\ run[r].result.managed_resources = run[r].matched
            /\ \A i, j \in 1..Len(run[r].matched) :
                   run[r].matched[i].terraform_address
                       = run[r].matched[j].terraform_address => i = j

\* C2, as claimed: in every report, whatever the two include flags, the number
\* of matched entries plus the number of missing entries of the report equals
\* total_azure_resources.
C2_AnyFlagsMatchedPlusMissing ==
    \A r \in Runs :
        Reported(r) =>
            Len(run[r].result.managed_resources) + Len(run[r].result.missing_resources)
                = run[r].result.summary.total_azure_resources

\* C2, amended: the sum equals total_azure_resources in every report of a run
\* with include_non_terraform_resources true, whatever the orphaned flag; with
\* the flag false the report's missing list is empty and the summary counts 0.
C2_MatchedPlusMissing ==
    \A r \in Runs :
        Reported(r) =>
            LET rep == run[r].result IN
            /\ rep.summary.total_azure_resources = Len(run[r].azure_resources)
            /\ rep.summary.terraform_managed = Len(rep.managed_resources)
            /\ rep.summary.missing_from_terraform = Len(rep.missing_resources)
            /\ IF run[r].include_non_terraform_resources
               THEN Len(rep.managed_resources) + Len(rep.missing_resources)
                        = rep.summary.total_azure_resources
               ELSE rep.missing_resources = <<>>

\* a report with a matched and a missing resource, the orphaned list left out
C2_Witness ==
    /\ Reported("first")
    /\ run["first"].include_non_terraform_resources
    /\ ~run["first"].include_orphaned_terraform_resources
    /\ Len(run["first"].result.managed_resources) = 1
    /\ Len(run["first"].result.missing_resources) = 1
    /\ Len(run["first"].orphaned) > 0

\* C3: in every run that returns a report, the number of matched entries plus
\* the number of orphaned entries the matcher produced equals
\* total_terraform_resources, the number of listed addresses.
C3_MatchedPlusOrphaned ==
    \A r \in Runs :
        Reported(r) =>
            /\ run[r].result.summary.total_terraform_resources
                   = Len(run[r].terraform_resources)
            /\ Len(run[r].matched) + Len(run[r].orphaned)
                   = run[r].result.summary.total_terraform_resources

\* the subsequence of s at the positions i with keep[i]
RECURSIVE Pick(_, _, _)
Pick(s, keep, i) ==
    IF i > Len(s) THEN <<>>
    ELSE (IF keep[i] THEN <<s[i]>> ELSE <<>>) \o Pick(s, keep, i + 1)

\* some declared entry of the index carries this provider id, both sides
\* lower-cased and without trailing slashes
HasIdTwin(azure_resource, details) ==
    \E k \in 1..Len(details) :
        /\ details[k].azure_resource_id # <<>>
        /\ RStripSlash(Lower(details[k].azure_resource_id))
               = RStripSlash(Lower(azure_resource.id))

\* some declared entry of the index has the normalized name of the last path
\* segment of the id
HasNameTwin(azure_resource, details) ==
    \E k \in 1..Len(details) :
        /\ details[k].normalized_name # <<>>
        /\ details[k].normalized_name
               = normalize_resource_name(extract_resource_name_from_id(azure_resource.id))

\* (id, type) of the live resources, of the matched and of the missing entries
LiveKeys(live) == [i \in 1..Len(live) |-> <<live[i].id, live[i].type>>]
MatchedKeys(matched) ==
    [i \in 1..Len(matched) |->
        <<matched[i].azure_resource_id, matched[i].azure_resource_type>>]
MissingKeys(missing) ==
    [i \in 1..Len(missing) |-> <<missing[i].resource_id, missing[i].resource_type>>]

\* C4: match_resources classifies every live resource exactly once: the
\* matched and the missing list split the live list, each resource in one of
\* them and in its order, and a resource for which neither strategy finds a
\* declared address is in missing.
C4_EachLiveResourceOnce ==
    \A r \in Runs :
        Reported(r) =>
            LET live == run[r].azure_resources
                details == run[r].tf_resource_details
            IN /\ Len(run[r].matched) + Len(run[r].missing) = Len(live)
               /\ \E is_matched \in [1..Len(live) -> BOOLEAN] :
                    /\ Pick(LiveKeys(live), is_matched, 1) = MatchedKeys(run[r].matched)
                    /\ Pick(LiveKeys(live), [i \in 1..Len(live) |-> ~is_matched[i]], 1)
                           = MissingKeys(run[r].missing)
                    /\ \A i \in 1..Len(live) :
                           is_matched[i] <=> (\/ HasIdTwin(live[i], details)
                                              \/ HasNameTwin(live[i], details))

\* a missing resource between two matched ones would need three; here one
\* matched after one missing
C4_Witness ==
    /\ Reported("first")
    /\ Len(run["first"].azure_resources) = 2
    /\ Len(run["first"].matched) = 1
    /\ Len(run["first"].missing) = 1
    /\ run["first"].matched[1].azure_resource_id = run["first"].azure_resources[2].id
    /\ run["first"].missing[1].resource_id = run["first"].azure_resources[1].id

\* C5: a live resource whose id equals the provider id of an indexed declared
\* entry, both lower-cased and without trailing slashes, is matched to an entry
\* with that provider id with method azure_id and confidence high, whatever
\* its name and type and the name candidates; only a resource without such an
\* entry is matched by name.
C5_IdentifierMatchWins ==
    \A r \in Runs :
        Reported(r) =>
            LET live == run[r].azure_resources
                details == run[r].tf_resource_details
                matched == run[r].matched
            IN /\ \A i \in 1..Len(live) :
                      HasIdTwin(live[i], details) =>
                          \E j \in 1..Len(matched) :
                              /\ matched[j].azure_resource_id = live[i].id
                              /\ matched[j].azure_resource_type = live[i].type
                              /\ matched[j].match_method = "azure_id"
                              /\ matched[j].match_confidence = "high"
               /\ \A j \in 1..Len(matched) :
                      LET twin == HasIdTwin([id |-> matched[j].azure_resource_id], details)
                      IN /\ twin <=> matched[j].match_method = "azure_id"
                         /\ twin =>
                              \E k \in 1..Len(details) :
                                  /\ details[k].address = matched[j].terraform_address
                                  /\ details[k].azure_resource_id # <<>>
                                  /\ RStripSlash(Lower(details[k].azure_resource_id))
                                       = RStripSlash(Lower(matched[j].azure_resource_id))

\* the identifier match goes to an address the name strategy would not have
\* chosen: the name candidates start with another address, and the ids differ
\* in case and trailing slash
C5_Witness ==
    /\ Reported("first")
    /\ \E j \in 1..Len(run["first"].matched) :
         LET e == run["first"].matched[j]
             details == run["first"].tf_resource_details
         IN /\ e.match_method = "azure_id"
            /\ e.azure_resource_id = idAB
            /\ DictGet(details, e.terraform_address).azure_resource_id = idABvariant
            /\ details[1].address # e.terraform_address
            /\ details[1].normalized_name = normalize_resource_name(e.azure_resource_name)

\* call r never entered match_resources nor _generate_report
MatcherNotInvoked(r) ==
    /\ run[r].pc # "match"
    /\ run[r].tf_resource_details = <<>>
    /\ run[r].matched = <<>>
    /\ run[r].missing = <<>>
    /\ run[r].orphaned = <<>>
    /\ ~run[r].result.success

\* C6: when the state listing or the inventory query fails, audit_coverage
\* returns an error result with no summary and no resource lists, and the
\* matcher and the report generator are never invoked in that run.
C6_HardFailureIsAnError ==
    \A r \in Runs :
        /\ (stateListAnswer = Failed /\ run[r].pc \notin {"idle", "auth", "auth_wait",
                                                          "validate", "state_list"}) =>
               /\ Returned(r)
               /\ run[r].result = [success |-> FALSE, error |-> "state"]
               /\ run[r].azure_resources = <<>>
               /\ MatcherNotInvoked(r)
        /\ (inventoryAnswer = Failed /\ run[r].pc \notin {"idle", "auth", "auth_wait",
                                                          "validate", "state_list",
                                                          "query"}) =>
               /\ Returned(r)
               /\ DOMAIN run[r].result = {"success", "error"}
               /\ run[r].result.error \in {"azure", "azure_auth_not_configured"}
               /\ MatcherNotInvoked(r)

\* the inventory query failed after a successful state listing
C6_Witness ==
    /\ Returned("first")
    /\ stateListAnswer.ok
    /\ Len(stateListAnswer.value) > 0
    /\ inventoryAnswer = Failed
    /\ run["first"].result.error = "azure"

\* C7: the engine is read-only: no step of a run changes the workspace or the
\* az CLI session, also when the state file or .terraform is absent.
C7_ReadOnly ==
    [][/\ terraformDir' = terraformDir
       /\ tfstateExists' = tfstateExists
       /\ cliSession' = cliSession
       /\ cliSubscription' = cliSubscription]_vars

\* the part of a report the include flags must not touch
FlagFree(rep) ==
    <<rep.summary.terraform_managed, rep.summary.coverage_percentage,
      rep.summary.total_azure_resources, rep.summary.total_terraform_resources,
      rep.managed_resources>>

\* the report of call r, had it been called with these two flags
ReportWithFlags(r, inc_missing, inc_orphaned) ==
    audit_report(match_resources(run[r].azure_resources, run[r].tf_resource_details,
                                 run[r].terraform_resources),
                 run[r].azure_resources, run[r].terraform_resources,
                 inc_missing, inc_orphaned)

\* C8: for fixed declared state and inventory the two include flags change
\* only whether missing_resources and orphaned_resources are populated:
\* terraform_managed, coverage_percentage, the two totals and managed_resources
\* are the same for all four flag combinations.
C8_FlagsOnlyHideLists ==
    \A r \in Runs :
        Reported(r) =>
            \A inc_missing, inc_orphaned \in BOOLEAN :
                LET other == ReportWithFlags(r, inc_missing, inc_orphaned) IN
                /\ FlagFree(other) = FlagFree(run[r].result)
                /\ other.missing_resources \in {<<>>, ReportWithFlags(r, TRUE, TRUE).missing_resources}
                /\ other.orphaned_resources \in {<<>>, run[r].orphaned}
                /\ (inc_missing = run[r].include_non_terraform_resources
                    /\ inc_orphaned = run[r].include_orphaned_terraform_resources)
                       => other = run[r].result

\* a report made with both flags off although the matcher found a missing
\* resource and an orphaned address next to a matched one
C8_Witness ==
    /\ Reported("first")
    /\ ~run["first"].include_non_terraform_resources
    /\ ~run["first"].include_orphaned_terraform_resources
    /\ Len(run["first"].matched) > 0
    /\ Len(run["first"].missing) > 0
    /\ Len(run["first"].orphaned) > 0
    /\ run["first"].result.missing_resources = <<>>
    /\ run["first"].result.orphaned_resources = <<>>

\* C9: the same call made twice on the same auditor, against the same declared
\* state and the same answers, returns the same result both times, tie-breaks
\* and list orders included.
C9_RepeatedCallSameResult ==
    (Returned("first") /\ Returned("second")) =>
        run["second"].result = run["first"].result

\* both calls returned a report with an ambiguous name match in it
C9_Witness ==
    /\ Reported("first")
    /\ Reported("second")
    /\ \E j \in 1..Len(run["second"].result.managed_resources) :
         run["second"].result.managed_resources[j].match_method = "name_ambiguous"
    /\ Len(run["second"].result.managed_resources) > 1

\* C10: in every report coverage_percentage is between 0 and 100 (the matched
\* count never exceeds total_azure_resources) and is exactly 0 when
\* total_azure_resources is 0.
C10_CoverageWithinRange ==
    \A r \in Runs :
        Reported(r) =>
            LET summary == run[r].result.summary IN
            /\ summary.coverage_percentage >= 0
            /\ summary.coverage_percentage <= 10000
            /\ summary.terraform_managed <= summary.total_azure_resources
            /\ summary.total_azure_resources = 0 => summary.coverage_percentage = 0
            /\ summary.total_azure_resources > 0 =>
                   \* the value is the quotient rounded to two decimals
                   /\ 2 * summary.coverage_percentage * summary.total_azure_resources
                          <= 2 * 10000 * summary.terraform_managed
                                 + summary.total_azure_resources
                   /\ 2 * summary.coverage_percentage * summary.total_azure_resources
                          >= 2 * 10000 * summary.terraform_managed
                                 - summary.total_azure_resources

\* an empty inventory against a non-empty declared state
C10_Witness ==
    /\ Reported("first")
    /\ run["first"].result.summary.total_azure_resources = 0
    /\ run["first"].result.summary.total_terraform_resources > 0
    /\ run["first"].result.summary.coverage_percentage = 0

\* the positions in the detail index of the declared entries that share the
\* live resource's normalized name, and of those whose lower-cased declared
\* type contains the live resource's type token
NameTwins(azure_resource, details) ==
    {k \in 1..Len(details) :
        /\ details[k].normalized_name # <<>>
        /\ details[k].normalized_name
               = normalize_resource_name(extract_resource_name_from_id(azure_resource.id))}

HintedTwins(azure_resource, details) ==
    {k \in NameTwins(azure_resource, details) :
        Contains(AzureTypeSimplified(azure_resource.type),
                 Lower(details[k].terraform_type))}

\* several declared entries of different types share the live resource's
\* name and the type token is contained in the type of one of them
HintApplies(azure_resource, details) ==
    /\ \E k1, k2 \in NameTwins(azure_resource, details) :
           details[k1].terraform_type # details[k2].terraform_type
    /\ HintedTwins(azure_resource, details) # {}

\* the live resource is matched, each time it is listed, to the first hinted
\* candidate with method name_with_type_hint
MatchedByHint(r, azure_resource, details) ==
    LET first == CHOOSE k \in HintedTwins(azure_resource, details) :
                     \A j \in HintedTwins(azure_resource, details) : k <= j
        entries == {j \in 1..Len(run[r].matched) :
                       /\ run[r].matched[j].azure_resource_id = azure_resource.id
                       /\ run[r].matched[j].azure_resource_type = azure_resource.type}
    IN /\ entries # {}
       /\ \A j \in entries :
              /\ run[r].matched[j].match_method = "name_with_type_hint"
              /\ run[r].matched[j].match_confidence = "medium"
              /\ run[r].matched[j].terraform_address = details[first].address

MatchingBegun(r) ==
    \/ run[r].pc = "match"
    \/ run[r].tf_resource_details # <<>>
    \/ run[r].matched # <<>>
    \/ run[r].missing # <<>>
    \/ run[r].orphaned # <<>>
    \/ Reported(r)
    \/ (Returned(r) /\ run[r].result.error = "exception")

\* C12: within a run matching begins only after the state listing and the
\* inventory query have both completed successfully, and on what they
\* returned; when either fails the failure is returned and neither the state
\* file is read nor matching started.
C12_MatchAfterBothReads ==
    /\ stateDocument.known => \E r \in Runs : MatchingBegun(r)
    /\ \A r \in Runs :
        /\ MatchingBegun(r) =>
               /\ stateListAnswer.ok
               /\ inventoryAnswer.ok
               /\ run[r].terraform_resources = stateListAnswer.value
               /\ run[r].azure_resources = inventoryAnswer.value
        /\ (Returned(r) /\ (stateListAnswer = Failed \/ inventoryAnswer = Failed)) =>
               /\ ~run[r].result.success
               /\ run[r].result.error \in {"state", "azure", "azure_auth_not_configured"}
               /\ ~MatchingBegun(r)
               /\ ~stateDocument.known

\* a report made from a non-empty listing and a non-empty inventory
C12_Witness ==
    /\ Reported("first")
    /\ stateDocument.known
    /\ Len(stateListAnswer.value) > 0
    /\ Len(inventoryAnswer.value) > 0
    /\ Len(run["first"].matched) > 0

\* C13: runs on the shared auditor are independent: each returns what it
\* would return alone on a fresh auditor with the same inputs, so two runs
\* with the same arguments against the same answers, overlapping or one after
\* the other, return the same result.
C13_RunsIndependent ==
    (Returned("first") /\ Returned("second")) =>
        run["second"].result = run["first"].result

\* C14: every external read of a run is bounded by a timeout: a run that was
\* started returns, also when an external call never completes, and then
\* with the failure of that read and not with a report.
C14_ReadsAreBounded ==
    (run["first"].pc # "idle") ~>
        (/\ Returned("first")
         /\ inventoryAnswer = Hung => ~run["first"].result.success)

\* call r has got its live list from _query_azure_resources
Queried(r) == MatchingBegun(r)

\* C15: for resource-group scope with a successful inventory query a failure
\* of the group lookup, a non-zero exit code or an exception, is not raised
\* to the caller: the live list is the inventory query's result without a
\* container entry and the run goes on to a report.
C15_GroupLookupFailureIsSoft ==
    \A r \in Runs :
        (/\ run[r].scope = "resource-group"
         /\ inventoryAnswer.ok
         /\ groupAnswer.known /\ ~groupAnswer.ok
         /\ run[r].pc \notin {"idle", "auth", "auth_wait", "validate", "state_list",
                               "query"}) =>
            /\ Queried(r)
            /\ run[r].azure_resources = inventoryAnswer.value
            /\ Returned(r) => Reported(r)

C17_AllManagedAlone ==
    \A r \in Runs :
        (Reported(r) /\ run[r].result.summary.coverage_percentage = 10000) =>
            /\ Len(run[r].result.recommendations) = 1
            /\ run[r].result.recommendations[1].kind = "all_managed"

\* the addresses of the managed instances of a state document
DocumentAddresses(resources) ==
    UNION {{InstanceAddress(resources[i].type, resources[i].name,
                            resources[i].instances[k].index_key) :
               k \in 1..Len(resources[i].instances)} :
           i \in {x \in 1..Len(resources) : resources[x].mode = "managed"}}

C19_MatcherNeverRaises ==
    \A r \in Runs :
        Returned(r) =>
            /\ Reported(r)
            /\ Len(run[r].matched) + Len(run[r].missing) = Len(run[r].azure_resources)

\* C20: with an empty declared state and a non-empty inventory every live
\* resource is reported missing, the orphaned list is empty, nothing is
\* matched and coverage is 0.
C20_EmptyStateAllMissing ==
    \A r \in Runs :
        (/\ Reported(r)
         /\ run[r].terraform_resources = <<>>
         /\ run[r].azure_resources # <<>>) =>
            /\ run[r].matched = <<>>
            /\ run[r].result.managed_resources = <<>>
            /\ MissingKeys(run[r].missing) = LiveKeys(run[r].azure_resources)
            /\ run[r].orphaned = <<>>
            /\ run[r].result.orphaned_resources = <<>>
            /\ run[r].result.summary.terraform_managed = 0
            /\ run[r].result.summary.coverage_percentage = 0
            /\ run[r].include_non_terraform_resources =>
                   MissingKeys(run[r].result.missing_resources)
                       = LiveKeys(run[r].azure_resources)

\* nothing is listed although the state file on disk declares the very
\* resource the inventory returns
C20_Witness ==
    /\ Reported("first")
    /\ run["first"].terraform_resources = <<>>
    /\ run["first"].include_non_terraform_resources
    /\ Len(run["first"].result.missing_resources) = 2
    /\ stateDocument.ok
    /\ \E i \in 1..Len(stateDocument.value) : stateDocument.value[i] = blockAB
    /\ run["first"].azure_resources[1] = liveAB

\* C21: with an empty inventory and a non-empty declared state every listed
\* address is reported as orphaned exactly once, the matched and the missing
\* list are empty and coverage is 0.
C21_EmptyInventoryAllOrphaned ==
    \A r \in Runs :
        (/\ Reported(r)
         /\ run[r].azure_resources = <<>>
         /\ run[r].terraform_resources # <<>>) =>
            /\ run[r].matched = <<>>
            /\ run[r].missing = <<>>
            /\ run[r].result.managed_resources = <<>>
            /\ run[r].result.missing_resources = <<>>
            /\ Len(run[r].orphaned) = Len(run[r].terraform_resources)
            /\ \A i \in 1..Len(run[r].terraform_resources) :
                   Cardinality({k \in 1..Len(run[r].orphaned) :
                                   run[r].orphaned[k].terraform_address
                                       = run[r].terraform_resources[i]}) = 1
            /\ run[r].include_orphaned_terraform_resources =>
                   run[r].result.orphaned_resources = run[r].orphaned
            /\ run[r].result.summary.total_azure_resources = 0
            /\ run[r].result.summary.coverage_percentage = 0

\* two listed addresses with their details on file, nothing in the inventory
C21_Witness ==
    /\ Reported("first")
    /\ run["first"].azure_resources = <<>>
    /\ Len(run["first"].terraform_resources) = 2
    /\ Len(run["first"].tf_resource_details) = 2
    /\ run["first"].include_orphaned_terraform_resources
    /\ Len(run["first"].result.orphaned_resources) = 2

\* str.upper() on one character: a string, since the sharp s has no single
\* upper-case character and becomes "SS"; the dotless i becomes "I"
UpperChar(c) ==
    IF c \in Range(LowerCase)
    THEN <<UpperCase[CHOOSE i \in 1..26 : LowerCase[i] = c]>>
    ELSE IF c = sharpS THEN <<"S", "S">>
    ELSE IF c = dotlessI THEN <<"I">>
    ELSE <<c>>

\* str.upper()
RECURSIVE Upper(_)
Upper(s) == IF Len(s) = 0 THEN <<>> ELSE UpperChar(s[1]) \o Upper(SubSeq(s, 2, Len(s)))

\* C22 (part): normalize_resource_name is total and idempotent, its result holds
\* only characters of [a-z0-9] and the empty string maps to the empty string.
C22_NormalizeIdempotent ==
    call.pc = "returned" =>
        /\ normalize_resource_name(call.result) = call.result
        /\ Range(call.result) \subseteq AlnumLower
        /\ call.name = <<>> => call.result = <<>>

\* C22: normalize_resource_name is total, idempotent and case-invariant: for
\* every string s, normalize(normalize(s)) = normalize(s) and
\* normalize(s) = normalize(upper(s)); the result holds only characters of
\* [a-z0-9] and the empty string maps to the empty string.
C22_NormalizeCaseInvariant ==
    call.pc = "returned" =>
        /\ normalize_resource_name(call.result) = call.result
        /\ call.result = normalize_resource_name(Upper(call.name))
        /\ Range(call.result) \subseteq AlnumLower
        /\ call.name = <<>> => call.result = <<>>

\* C22 on names of ASCII characters only
C22_NormalizeCaseInvariantAscii ==
    (call.pc = "returned" /\ Range(call.name) \cap {sharpS, dotlessI} = {}) =>
        call.result = normalize_resource_name(Upper(call.name))

\* C23: every entry of the report's missing_resources carries an export_command
\* that references that entry's own live resource id, and no matched or
\* orphaned entry carries one.
C23_ExportCommandOnMissingOnly ==
    \A r \in Runs :
        Reported(r) =>
            LET rep == run[r].result IN
            /\ \A i \in 1..Len(rep.missing_resources) :
                   LET e == rep.missing_resources[i] IN
                   /\ "export_command" \in DOMAIN e
                   /\ e.resource_id = run[r].missing[i].resource_id
                   /\ \E k \in 1..Len(run[r].azure_resources) :
                          /\ run[r].azure_resources[k].id = e.resource_id
                          /\ Len(e.export_command) = Len(e.resource_id) + 2
                          /\ SubSeq(e.export_command, 2, Len(e.resource_id) + 1)
                                 = run[r].azure_resources[k].id
                   /\ e.export_command[1] = ExportText
                   /\ e.export_command[Len(e.export_command)] = "'"
            /\ \A i \in 1..Len(rep.managed_resources) :
                   "export_command" \notin DOMAIN rep.managed_resources[i]
            /\ \A i \in 1..Len(rep.orphaned_resources) :
                   "export_command" \notin DOMAIN rep.orphaned_resources[i]

\* a report with a missing, a managed and an orphaned entry
C23_Witness ==
    /\ Reported("first")
    /\ Len(run["first"].result.missing_resources) >= 1
    /\ Len(run["first"].result.managed_resources) >= 1
    /\ Len(run["first"].result.orphaned_resources) >= 1

\* the normalized name of the last path segment of a live resource's id
LiveName(azure_resource) ==
    normalize_resource_name(extract_resource_name_from_id(azure_resource.id))

\* the positions of the detail index whose entry has this normalized name
SameName(details, name) ==
    {i \in 1..Len(details) : details[i].normalized_name = name}

\* the matched entries of call r for the live resource at position k: the
\* matcher appends at most one entry per live resource, in their order
MatchedFor(r, k) ==
    {i \in 1..Len(run[r].matched) :
        /\ run[r].matched[i].azure_resource_id = run[r].azure_resources[k].id
        /\ run[r].matched[i].azure_resource_type = run[r].azure_resources[k].type}

\* only identifier matches have confidence high
HighOnlyForIdentifier(r) ==
    \A i \in 1..Len(run[r].matched) :
        /\ run[r].matched[i].match_confidence \in {"high", "medium"}
        /\ run[r].matched[i].match_confidence = "high"
              <=> run[r].matched[i].match_method = "azure_id"

PlacesOf(resources, address) ==
    {p \in (1..Len(resources)) \X (1..MaxDoc + 1) :
        /\ resources[p[1]].mode = "managed"
        /\ p[2] <= Len(resources[p[1]].instances)
        /\ InstanceAddress(resources[p[1]].type, resources[p[1]].name,
                           resources[p[1]].instances[p[2]].index_key) = address}

\* address a occurs in the state document before address b does
OccursBefore(resources, a, b) ==
    \E p \in PlacesOf(resources, a) :
        \A q \in PlacesOf(resources, b) :
            p[1] < q[1] \/ (p[1] = q[1] /\ p[2] < q[2])

\* the addresses of the detail index that share the live resource's name
Sharing(details, azure_resource) ==
    {details[i].address : i \in SameName(details, LiveName(azure_resource))}

\* some entry sharing the name has a declared type that contains the live
\* resource's type token
SomeTypeContainsToken(details, azure_resource) ==
    \E i \in SameName(details, LiveName(azure_resource)) :
        Contains(AzureTypeSimplified(azure_resource.type),
                 Lower(details[i].terraform_type))

\* the live resource at position k has one or more matched entries, all
\* name_ambiguous / none of them name_ambiguous
AmbiguousAt(r, k) ==
    /\ MatchedFor(r, k) # {}
    /\ \A i \in MatchedFor(r, k) : run[r].matched[i].match_method = "name_ambiguous"

\* the matched address of the live resource at position k is the candidate
\* that occurs first in the state document
FirstInDocumentAt(r, k) ==
    \A i \in MatchedFor(r, k) :
        /\ run[r].matched[i].terraform_address
               \in Sharing(run[r].tf_resource_details, run[r].azure_resources[k])
        /\ \A c \in Sharing(run[r].tf_resource_details, run[r].azure_resources[k])
                    \ {run[r].matched[i].terraform_address} :
               OccursBefore(stateDocument.value, run[r].matched[i].terraform_address, c)

MatchedAddresses(r) ==
    {run[r].matched[i].terraform_address : i \in 1..Len(run[r].matched)}

OrphanedAddresses(r) ==
    {run[r].orphaned[i].terraform_address : i \in 1..Len(run[r].orphaned)}

\* C26: after match_resources the matched and the orphaned terraform addresses
\* are disjoint and their union is the set of addresses of the state listing:
\* every listed address not consumed by a match is in exactly one orphaned
\* entry and no consumed address is orphaned.
C26_MatchedOrphanedPartition ==
    \A r \in Runs :
        Reported(r) =>
            /\ MatchedAddresses(r) \cap OrphanedAddresses(r) = {}
            /\ MatchedAddresses(r) \cup OrphanedAddresses(r)
                   = Range(run[r].terraform_resources)
            /\ \A a \in Range(run[r].terraform_resources) \ MatchedAddresses(r) :
                   Cardinality({i \in 1..Len(run[r].orphaned) :
                                   run[r].orphaned[i].terraform_address = a}) = 1

\* of two listed addresses one is consumed by a match and one is orphaned
C26_Witness ==
    /\ Reported("first")
    /\ Len(run["first"].terraform_resources) = 2
    /\ Cardinality(MatchedAddresses("first")) = 1
    /\ Cardinality(OrphanedAddresses("first")) = 1

\* the entries of a detail index with this address
EntriesAt(details, address) == {i \in 1..Len(details) : details[i].address = address}

\* the detail index has an entry for this address, written out character by
\* character, exactly when the state document holds this block and the
\* address was requested
EntryIff(details, address, block, resources, requested) ==
    EntriesAt(details, address) # {}
        <=> (block \in Range(resources) /\ address \in Range(requested))

\* C27: get_state_resource_details returns an index with exactly one entry per
\* managed-mode resource instance of the state document whose constructed
\* address is in the requested address list, where the address is type.name
\* with no index key, type.name[n] for an integer key and type.name["k"] for a
\* string key; data-mode resources and unrequested addresses never get an
\* entry, and an instance without an id attribute gets an entry with an empty
\* provider id.
C27_DetailsPerRequestedInstance ==
    \A r \in Runs :
        (Reported(r) /\ stateDocument.ok) =>
            LET details == run[r].tf_resource_details
                resources == stateDocument.value
                requested == run[r].terraform_resources
            IN /\ \A i \in 1..Len(details) :
                      /\ details[i].address \in Range(requested)
                      /\ EntriesAt(details, details[i].address) = {i}
                      /\ \E b \in 1..Len(resources) :
                             /\ resources[b].mode = "managed"
                             /\ resources[b].type = details[i].terraform_type
                             /\ resources[b].name = details[i].terraform_name
                             /\ \E k \in 1..Len(resources[b].instances) :
                                    resources[b].instances[k].id
                                        = details[i].azure_resource_id
               /\ EntryIff(details, tXY \o <<".","a","b">>, blockAB, resources, requested)
               /\ EntryIff(details, tW \o <<".","a","_","b","[","0","]">>,
                           blockKeyed, resources, requested)
               /\ EntryIff(details, tW \o <<".","a","_","b","[","\"","k","\"","]">>,
                           blockKeyed, resources, requested)
               /\ \A i \in EntriesAt(details, tW \o <<".","a","_","b","[","0","]">>) :
                      details[i].azure_resource_id = <<>>
               /\ \A i \in EntriesAt(details, tW \o <<".","a","_","b","[","\"","k","\"","]">>) :
                      details[i].azure_resource_id = idABvariant

\* a data block whose address is requested and a keyed block of which only
\* the instance without an id is requested: one entry, with an empty id
C27_Witness ==
    /\ Reported("first")
    /\ stateDocument.ok
    /\ stateDocument.value = <<blockData, blockKeyed>>
    /\ run["first"].terraform_resources = <<addrAB, addrKey0>>
    /\ Len(run["first"].tf_resource_details) = 1
    /\ run["first"].tf_resource_details[1].address = addrKey0
    /\ run["first"].tf_resource_details[1].azure_resource_id = <<>>

\* both instances of a keyed block are requested and indexed
C27_WitnessKeys ==
    /\ Reported("first")
    /\ stateDocument.ok
    /\ Len(run["first"].tf_resource_details) = 2
    /\ run["first"].tf_resource_details[1].address = addrKey0
    /\ run["first"].tf_resource_details[2].address = addrKeyK

\* the report of call r carries the review-manually recommendation
ReviewManually(r) ==
    \E i \in 1..Len(run[r].result.recommendations) :
        run[r].result.recommendations[i].kind = "review_manually"

\* C28: the review-manually recommendation is in a report exactly when
\* coverage is below 100 and the run has no unmanaged live resource; it is
\* never emitted in a run where some live resource was left unmatched.
C28_ReviewManuallyOnlyWithoutUnmatched ==
    \A r \in Runs :
        Reported(r) =>
            /\ ReviewManually(r)
                  <=> (/\ run[r].result.summary.coverage_percentage < 10000
                       /\ run[r].missing = <<>>)
            /\ run[r].missing # <<>> => ~ReviewManually(r)

\* C28 on the runs that show their missing resources
C28_ReviewManuallyWhenMissingShown ==
    \A r \in Runs :
        (Reported(r) /\ run[r].include_non_terraform_resources) =>
            /\ ReviewManually(r)
                  <=> (/\ run[r].result.summary.coverage_percentage < 10000
                       /\ run[r].missing = <<>>)
            /\ run[r].missing # <<>> => ~ReviewManually(r)

\* a step in which some call enters the body of _authenticate_azure_cli
AuthStarts == \E r \in Runs : run[r].pc # "auth_wait" /\ run'[r].pc = "auth_wait"

\* a step in which some call issues its inventory query
QueryIssued == \E r \in Runs : run[r].pc = "query" /\ run'[r].pc # "query"

\* the authentication attempt of some call has started and not finished
AuthInProgress == \E r \in Runs : run[r].pc = "auth_wait"

\* C29 (part): the authentication routine is started at most once: its body
\* is entered only by the step that sets auth_attempted, which is never reset.
C29_AuthStartedOnce ==
    [][/\ AuthStarts => (~auth_attempted /\ auth_attempted')
       /\ auth_attempted => auth_attempted']_vars

\* C29: for any interleaving of audit_coverage runs on one auditor the
\* authentication routine is started at most once, and no run issues its
\* inventory query before that authentication attempt has finished.
C29_AuthOnceBeforeAnyQuery ==
    [][/\ AuthStarts => (~auth_attempted /\ auth_attempted')
       /\ auth_attempted => auth_attempted'
       /\ QueryIssued => (auth_attempted /\ ~AuthInProgress)]_vars

\* the place of a position of audit_coverage in the order of its steps
StepRank(pc) ==
    CASE pc = "idle" -> 0
      [] pc = "auth" -> 1
      [] pc = "auth_wait" -> 2
      [] pc = "validate" -> 3
      [] pc = "state_list" -> 4
      [] pc = "query" -> 5
      [] pc = "match" -> 6
      [] pc = "done" -> 7

\* no read of the declared state or of the inventory has been issued
NoReadIssued ==
    /\ ~stateListAnswer.known
    /\ ~inventoryAnswer.known
    /\ ~groupAnswer.known
    /\ ~stateDocument.known
    /\ ~initAnswer.known

\* a call moves from one step to the next one, or returns; only the
\* authentication attempt may be skipped
StepsInOrder ==
    \A r \in Runs :
        run'[r].pc # run[r].pc =>
            \/ StepRank(run'[r].pc) = StepRank(run[r].pc) + 1
            \/ run[r].pc = "auth" /\ run'[r].pc = "validate"
            \/ run[r].pc \in {"validate", "state_list", "query"} /\ run'[r].pc = "done"

\* each read is issued at its step only: the listing by a call at the state
\* listing, the inventory query and the group lookup by a call at the query,
\* the state file and terraform init by a call at the matching
ReadsAtTheirStep ==
    /\ stateListAnswer' # stateListAnswer => \E r \in Runs : run[r].pc = "state_list"
    /\ (inventoryAnswer' # inventoryAnswer \/ groupAnswer' # groupAnswer)
          => \E r \in Runs : run[r].pc = "query"
    /\ (stateDocument' # stateDocument \/ initAnswer' # initAnswer)
          => \E r \in Runs : run[r].pc = "match" /\ run'[r].pc = "done"

\* a call stops at its first failing step
StopsAtFirstFailure ==
    \A r \in Runs :
        /\ (StepRank(run[r].pc) > 3 /\ WorkspaceRejected(run[r].workspace_folder)) =>
               /\ Returned(r)
               /\ run[r].result = ErrorResult("workspace")
               /\ NoReadIssued
        /\ (StepRank(run[r].pc) > 4 /\ ~stateListAnswer.ok) =>
               /\ Returned(r)
               /\ ~run[r].result.success
               /\ ~inventoryAnswer.known
               /\ ~groupAnswer.known
               /\ ~stateDocument.known
               /\ ~initAnswer.known
               /\ ~MatchingBegun(r)
        /\ (StepRank(run[r].pc) > 5 /\ ~inventoryAnswer.ok) =>
               /\ Returned(r)
               /\ ~run[r].result.success
               /\ ~stateDocument.known
               /\ ~initAnswer.known
               /\ ~MatchingBegun(r)
        /\ Reported(r) =>
               /\ ~WorkspaceRejected(run[r].workspace_folder)
               /\ stateListAnswer.ok
               /\ inventoryAnswer.ok

\* C30: the steps of one audit_coverage run occur in the fixed order workspace
\* validation, state listing, inventory query, state details read, matching,
\* report, and the run stops at the first failing step: if workspace
\* validation fails no external read is issued, and if the state listing
\* fails neither the inventory query nor the state details read is ever
\* issued.
C30_StepsInOrderStopAtFailure ==
    /\ []StopsAtFirstFailure
    /\ [][StepsInOrder /\ ReadsAtTheirStep]_vars

\* a call returned the failure of its state listing
C30_Witness ==
    /\ Returned("first")
    /\ run["first"].result = ErrorResult("state")
    /\ stateListAnswer.known
    /\ ~stateListAnswer.ok
    /\ ~inventoryAnswer.known

\* a call returned the rejection of its workspace folder
C30_WitnessWorkspace ==
    /\ Returned("first")
    /\ run["first"].result = ErrorResult("workspace")
    /\ NoReadIssued

====
